---- MODULE Spec2Model ----
(***************************************************************************)
(* Model of OracleCommand.pandasBulkInsert (python/utilities/database.py): *)
(* the pure helpers that build the INSERT statement and the batch, and the *)
(* sequence of driver calls the method issues on the handles it stores in  *)
(* the command object.                                                     *)
(*                                                                         *)
(* Text is modelled as a sequence of one-character strings, so that        *)
(* concatenation, rstrip and upper are computed and not assumed.           *)
(***************************************************************************)
EXTENDS Integers, Sequences, FiniteSets, TLC

(***************************************************************************)
(* Bounds                                                                  *)
(***************************************************************************)
\* longest column-name list handed to the formatter
MaxNames == 5
\* columns / rows of the data frames handed to the row extractor
MaxDfCols == 2
MaxDfRows == 2
\* number of pandasBulkInsert calls
MaxCalls == 2

(***************************************************************************)
(* Python values used as "no value"                                        *)
(***************************************************************************)
None == [t |-> "none"]

(***************************************************************************)
(* Text helpers: str.upper, str.rstrip, str(int)                           *)
(***************************************************************************)
Whitespace == {" ", "\t", "\n"}

\* str.upper on one character: letters are folded, everything else is kept
UpperChar(ch) ==
    CASE ch = "a" -> "A" [] ch = "b" -> "B" [] ch = "d" -> "D" [] ch = "e" -> "E"
      [] ch = "f" -> "F" [] ch = "i" -> "I" [] ch = "m" -> "M"
      [] ch = "n" -> "N" [] ch = "t" -> "T" [] ch = "x" -> "X"
      [] OTHER -> ch

\* lambda x: x.upper()
Upper(s) == [k \in 1..Len(s) |-> UpperChar(s[k])]

RECURSIVE RStrip(_)
RStrip(s) ==
    IF s # <<>> /\ s[Len(s)] \in Whitespace
    THEN RStrip(SubSeq(s, 1, Len(s) - 1))
    ELSE s

Digit(d) ==
    CASE d = 0 -> "0" [] d = 1 -> "1" [] d = 2 -> "2" [] d = 3 -> "3"
      [] d = 4 -> "4" [] d = 5 -> "5" [] d = 6 -> "6" [] d = 7 -> "7"
      [] d = 8 -> "8" [] d = 9 -> "9"

\* str(n) for n >= 0
RECURSIVE Str(_)
Str(n) == IF n < 10 THEN <<Digit(n)>> ELSE Str(n \div 10) \o <<Digit(n % 10)>>

(***************************************************************************)
(* __buildInsertStrObj__                                                   *)
(***************************************************************************)
\* """"%s" """ % c : the name between double quotes, followed by one space
QuotedNameFmt(c) == <<"\"">> \o c \o <<"\"", " ">>

\* One iteration of the for loop: i is enumerate's index (from 0), c the
\* name, acc the pair (_colNameStr, _colNumstr) built so far.
FirstColumnStep(c, i, acc) ==
    <<RStrip(acc[1] \o <<"(">> \o QuotedNameFmt(c)),
      acc[2] \o <<"(">> \o <<":">> \o Str(i + 1)>>

NextColumnStepNoSep(c, i, acc) ==
    <<RStrip(acc[1] \o QuotedNameFmt(c)),
      acc[2] \o <<":">> \o Str(i + 1)>>

NextColumnStep(c, i, acc) ==
    <<RStrip(acc[1] \o <<",">> \o QuotedNameFmt(c)),
      acc[2] \o <<",">> \o <<":">> \o Str(i + 1)>>

RECURSIVE ColumnLoop(_, _, _)
ColumnLoop(colNames, i, acc) ==
    IF i >= Len(colNames) THEN acc
    ELSE ColumnLoop(colNames, i + 1,
                    IF i = 0 THEN FirstColumnStep(colNames[i + 1], i, acc)
                             ELSE NextColumnStep(colNames[i + 1], i, acc))

\* returns <<_colNameStr, _colNumstr>>
__buildInsertStrObj__(colNames, ToUpper) ==
    LET names == IF ToUpper THEN [k \in 1..Len(colNames) |-> Upper(colNames[k])]
                            ELSE colNames
        acc   == ColumnLoop(names, 0, << <<>>, <<>> >>)
    IN  <<acc[1] \o <<")">>, acc[2] \o <<")">>>>

(***************************************************************************)
(* __buildInsCursorString__                                                *)
(***************************************************************************)
InsertInto == <<"I","N","S","E","R","T"," ","I","N","T","O"," ">>
Values     == <<" ","V","A","L","U","E","S"," ">>

QuotedTableCursorString(tableName, colNumStr, colNameStr) ==
    InsertInto \o <<"\"">> \o tableName \o <<"\"">> \o <<" ">> \o colNameStr
               \o Values \o colNumStr

\* "INSERT INTO %s %s VALUES %s" % (tableName, colNameStr, colNumStr)
__buildInsCursorString__(tableName, colNumStr, colNameStr) ==
    InsertInto \o tableName \o <<" ">> \o colNameStr \o Values \o colNumStr

(***************************************************************************)
(* State                                                                   *)
(***************************************************************************)
VARIABLES
    fmt,      \* the statement builders applied to one input
    ext,      \* the row extractor and the normalizer applied to one frame
    pc,       \* per call: the statement of pandasBulkInsert it is at
    args,     \* per call: the command object and the arguments
    locals,   \* per call: _dtList and _curString
    result,   \* per call: "running", "returned", or the exception raised
    log,      \* per call: the driver calls it issued, in order
    self_db,      \* per command object: self.__db
    self_cursor,  \* per command object: self.__cursor
    conns,    \* driver: per connection, its state and uncommitted rows
    cursors,  \* driver: per cursor, its state, connection and statement
    table     \* database: the committed rows, in insertion order

vars == <<fmt, ext, pc, args, locals, result, log, self_db, self_cursor,
          conns, cursors, table>>
fmtVars    == <<fmt>>
extVars    == <<ext>>
uploadVars == <<pc, args, locals, result, log, self_db, self_cursor,
                conns, cursors, table>>

(***************************************************************************)
(* Inputs of the statement builders                                        *)
(***************************************************************************)
NameId   == <<"i", "d">>
NameName == <<"n", "a", "m", "e">>
\* a legal quoted identifier with brackets, a comma and a trailing blank
NameOdd  == <<"f", "(", "x", ",", ")", " ">>
\* a name no quoted identifier can hold: it contains a double quote
NameQuote == <<"a", "\"", "b">>
ColumnNamePool == {NameId, NameName, NameOdd, NameQuote}

TableT     == <<"T">>
TableLower == <<"m", "y", "_", "t">>
TableNamePool == {TableT, TableLower}

SeqsUpTo(S, n) == UNION {[1..k -> S] : k \in 0..n}

FmtIdle == [pc |-> "off"]

(***************************************************************************)
(* Scalar values and data frames                                           *)
(*                                                                         *)
(* A number is hi * 2^53 + lo with hi in {0, 1} and lo small, so that the  *)
(* integers a float64 cannot hold (2^53 + 1, 2^53 + 3) are among the       *)
(* values.  A data frame has one dtype per column; the cells of a column   *)
(* are values of that dtype.                                               *)
(***************************************************************************)
IntV(hi, lo)   == [t |-> "int", hi |-> hi, lo |-> lo]
FloatV(hi, lo) == [t |-> "float", hi |-> hi, lo |-> lo]
NaN            == [t |-> "nan"]
StrV(s)        == [t |-> "str", s |-> s]
BoolV(b)       == [t |-> "bool", b |-> b]

Dtypes == {"int64", "float64", "bool", "object"}

CellsOf(dtype) ==
    CASE dtype = "int64"   -> {IntV(0, 1), IntV(0, 2), IntV(1, 1)}
      [] dtype = "float64" -> {FloatV(0, 0), FloatV(0, 2), NaN}
      [] dtype = "bool"    -> {BoolV(FALSE), BoolV(TRUE)}
      [] dtype = "object"  -> {StrV(<<>>), StrV(<<"x">>), None, NaN}

\* Python's == on scalars: NaN equals nothing, numbers compare by value
\* (False == 0, 1 == 1.0), None equals None, strings compare by content.
IsNumber(v) == v.t \in {"int", "float", "bool"}
NumVal(v)   == IF v.t = "bool" THEN <<0, IF v.b THEN 1 ELSE 0>> ELSE <<v.hi, v.lo>>
PyEq(a, b) ==
    CASE a.t = "nan" \/ b.t = "nan"      -> FALSE
      [] IsNumber(a) /\ IsNumber(b)      -> NumVal(a) = NumVal(b)
      [] a.t = "str" /\ b.t = "str"      -> a.s = b.s
      [] a.t = "none" /\ b.t = "none"    -> TRUE
      [] OTHER                           -> FALSE
PyNe(a, b) == ~PyEq(a, b)

(***************************************************************************)
(* __castToNone__                                                          *)
(***************************************************************************)
__castToNone__(value) == IF PyNe(value, value) THEN None ELSE value

(***************************************************************************)
(* __pandasToList__                                                        *)
(***************************************************************************)
\* DataFrame.iterrows builds each row as one Series: the row takes the
\* common dtype of the columns (int64 with float64 gives float64, bool
\* with a number or anything with object gives object).
RowDtype(dtypes) ==
    LET used == {dtypes[j] : j \in 1..Len(dtypes)}
    IN  CASE used = {}                        -> "object"
          [] Cardinality(used) = 1            -> CHOOSE d \in used : TRUE
          [] used \subseteq {"int64", "float64"} -> "float64"
          [] OTHER                            -> "object"

\* int64 -> float64, round to nearest, ties to even: below 2^53 every
\* integer is exact; from 2^53 on only the even ones are, and an odd one
\* goes to the neighbour whose mantissa is even (a multiple of 4 here).
ToFloat64(v) ==
    IF v.hi = 0 \/ v.lo % 2 = 0 THEN FloatV(v.hi, v.lo)
    ELSE FloatV(v.hi, IF (v.lo + 1) % 4 = 0 THEN v.lo + 1 ELSE v.lo - 1)

AsRowDtype(v, rowDtype) ==
    IF rowDtype = "float64" /\ v.t = "int" THEN ToFloat64(v) ELSE v

\* r.values.tolist() for every (i, r) of dataFrame.iterrows()
__pandasToList__(dataFrame) ==
    LET rowDtype == RowDtype(dataFrame.dtypes)
    IN  [i \in 1..Len(dataFrame.rows) |->
            [j \in 1..Len(dataFrame.rows[i]) |->
                AsRowDtype(dataFrame.rows[i][j], rowDtype)]]

\* for i, r in enumerate(_dtList): for j, c in enumerate(r):
\*     _dtList[i][j] = self.__castToNone__(c)
NormalizeList(dtList) ==
    [i \in 1..Len(dtList) |->
        [j \in 1..Len(dtList[i]) |-> __castToNone__(dtList[i][j])]]

\* the frames with the given dtypes and number of rows
FramesOf(columns, dtypes, nrows) ==
    {[columns |-> columns, dtypes |-> dtypes, rows |-> rows] :
        rows \in [1..nrows -> {r \in [1..Len(dtypes) -> UNION {CellsOf(d) : d \in Dtypes}] :
                                  \A j \in 1..Len(dtypes) : r[j] \in CellsOf(dtypes[j])}]}

DefaultColumns == <<NameId, NameName, NameOdd>>

ExtFrames(maxCols, maxRows) ==
    UNION {FramesOf(SubSeq(DefaultColumns, 1, Len(dtypes)), dtypes, nrows) :
              dtypes \in SeqsUpTo(Dtypes, maxCols), nrows \in 0..maxRows}

ExtIdle == [pc |-> "off"]

(***************************************************************************)
(* pandasBulkInsert: calls, command objects, driver handles                *)
(*                                                                         *)
(* The connection a call opens and the cursor it creates carry the call's  *)
(* number; 0 is "no handle".  A command object keeps the handles in        *)
(* self.__db and self.__cursor, which every driver call reads back.        *)
(***************************************************************************)
Calls   == 1..MaxCalls
Objects == {"cmdA", "cmdB"}
NoHandle == 0

FrameExample ==
    [columns |-> <<NameId, NameName>>, dtypes |-> <<"int64", "object">>,
     rows |-> << <<IntV(0, 1), StrV(<<"x">>)>>, <<IntV(0, 2), NaN>> >>]
FrameNoRows ==
    [columns |-> <<NameId>>, dtypes |-> <<"int64">>, rows |-> <<>>]
FrameNoColumns ==
    [columns |-> <<>>, dtypes |-> <<>>, rows |-> <<>>]
UploadFrames == {FrameExample, FrameNoRows, FrameNoColumns}

\* columnNames=None, or a list
NoColumnNames == [given |-> FALSE, names |-> <<>>]
ColumnNames(names) == [given |-> TRUE, names |-> names]
UploadColumnNames ==
    {NoColumnNames} \cup {ColumnNames(n) : n \in {<<NameId>>, <<NameId, NameName>>}}

UploadArgs ==
    [self : Objects, dataFrame : UploadFrames, tableName : {TableT},
     columnNames : UploadColumnNames, colNamesUpper : {FALSE}]

NoArgs   == [self |-> "none"]
NoLocals == [_dtList |-> <<>>, _curString |-> <<>>]

NoResult       == [exc |-> "pending"]
Returned       == [exc |-> "none"]
AssertionError == [exc |-> "AssertionError"]
DriverError(at) == [exc |-> "cx_Oracle.Error", at |-> at]

\* assert (len(columnNames) == dataFrame.shape[1])
AssertAlwaysPasses(columnNames, dataFrame) == TRUE

ColumnCountMatches(columnNames, dataFrame) ==
    Len(columnNames) = Len(dataFrame.columns)

\* the statements of pandasBulkInsert that call the driver, in program order
\* (__connect__ and __disconnect__ are two driver calls each)
DriverCalls ==
    <<"connect", "cursor", "prepare", "executemany", "commit",
      "cursor_close", "db_close">>

IndexOf(at) == CHOOSE k \in 1..Len(DriverCalls) : DriverCalls[k] = at

\* where control goes when the driver call at `at` returns
AfterSuccess(at) ==
    IF at = "db_close" THEN "done" ELSE DriverCalls[IndexOf(at) + 1]

\* where control goes when the driver call at `at` raises: no try block
\* encloses the driver calls, the exception leaves pandasBulkInsert
AfterFailureContinue(at) == AfterSuccess(at)

AfterFailure(at) == "done"

\* the argument of executemany
BatchWithoutLastRow(loc) ==
    IF loc._dtList = <<>> THEN <<>>
    ELSE SubSeq(loc._dtList, 1, Len(loc._dtList) - 1)

BatchArgument(loc) == loc._dtList

\* the database parses the statement when it is executed: with no column
\* the text is "INSERT INTO T ) VALUES )", which it rejects
HasColumnList(stmt) == \E k \in 1..Len(stmt) : stmt[k] = "("

ConnNone   == [state |-> "none", pending |-> <<>>]
CursorNone == [state |-> "none", conn |-> NoHandle, stmt |-> <<>>, prepared |-> FALSE]

\* a handle attribute that was never assigned is not a usable handle
ConnOpen(h)   == h # NoHandle /\ conns[h].state = "open"
CursorOpen(k) == k # NoHandle /\ cursors[k].state = "open"

UploadInit ==
    /\ pc = [c \in Calls |-> "idle"]
    /\ args = [c \in Calls |-> NoArgs]
    /\ locals = [c \in Calls |-> NoLocals]
    /\ result = [c \in Calls |-> NoResult]
    /\ log = [c \in Calls |-> <<>>]
    /\ self_db = [o \in Objects |-> NoHandle]
    /\ self_cursor = [o \in Objects |-> NoHandle]
    /\ conns = [h \in Calls |-> ConnNone]
    /\ cursors = [k \in Calls |-> CursorNone]
    /\ table = <<>>

(***************************************************************************)
(* pandasBulkInsert, statement by statement                                *)
(***************************************************************************)
\* columnNames after the first if statement
ColumnNamesUsed(a) ==
    IF a.columnNames.given THEN a.columnNames.names ELSE a.dataFrame.columns

AssertionPasses(a) ==
    \/ ~a.columnNames.given
    \/ ColumnCountMatches(a.columnNames.names, a.dataFrame)

\* _dtList after the normalisation loop
DtListOf(a) == NormalizeList(__pandasToList__(a.dataFrame))

\* _curString
CurStringOf(a) ==
    LET strObj == __buildInsertStrObj__(ColumnNamesUsed(a), a.colNamesUpper)
    IN  __buildInsCursorString__(a.tableName, strObj[2], strObj[1])

Outcomes(usable) == IF usable THEN BOOLEAN ELSE {FALSE}

Logged(c, at, on, ok, arg) ==
    log' = [log EXCEPT ![c] = Append(@, [op |-> at, on |-> on, ok |-> ok, arg |-> arg])]

Finish(c, at, ok) ==
    /\ pc' = [pc EXCEPT ![c] = IF ok THEN AfterSuccess(at) ELSE AfterFailure(at)]
    /\ result' = [result EXCEPT ![c] =
                    IF ~ok THEN DriverError(at)
                    ELSE IF AfterSuccess(at) = "done" THEN Returned ELSE @]

\* Entry, the column-count assertion and the local computation up to
\* _curString: no driver call, no access to the command object's handles.
Start(c) ==
    /\ pc[c] = "idle"
    /\ \E a \in UploadArgs :
         /\ args' = [args EXCEPT ![c] = a]
         /\ IF AssertionPasses(a)
            THEN /\ locals' = [locals EXCEPT ![c] =
                                 [_dtList |-> DtListOf(a), _curString |-> CurStringOf(a)]]
                 /\ pc' = [pc EXCEPT ![c] = "connect"]
                 /\ UNCHANGED result
            ELSE /\ pc' = [pc EXCEPT ![c] = "done"]
                 /\ result' = [result EXCEPT ![c] = AssertionError]
                 /\ UNCHANGED locals
    /\ UNCHANGED <<fmt, ext, log, self_db, self_cursor, conns, cursors, table>>

\* a call starts when the previous one has returned or raised
StartInSequence(c) ==
    /\ \A d \in Calls \ {c} : pc[d] \in {"idle", "done"}
    /\ IF c = 1 THEN TRUE ELSE pc[c - 1] = "done"
    /\ Start(c)

\* self.__db = cx_Oracle.connect(self.__cStr)
Connect(c) ==
    /\ pc[c] = "connect"
    /\ \E ok \in BOOLEAN :
         /\ conns' = IF ok THEN [conns EXCEPT ![c] = [state |-> "open", pending |-> <<>>]]
                     ELSE conns
         /\ self_db' = IF ok THEN [self_db EXCEPT ![args[c].self] = c] ELSE self_db
         /\ Logged(c, "connect", IF ok THEN c ELSE NoHandle, ok, <<>>)
         /\ Finish(c, "connect", ok)
    /\ UNCHANGED <<fmt, ext, args, locals, self_cursor, cursors, table>>

\* self.__cursor = self.__db.cursor()
Cursor(c) ==
    /\ pc[c] = "cursor"
    /\ LET db == self_db[args[c].self]
       IN  \E ok \in Outcomes(ConnOpen(db)) :
             /\ cursors' = IF ok THEN [cursors EXCEPT ![c] =
                                         [state |-> "open", conn |-> db,
                                          stmt |-> <<>>, prepared |-> FALSE]]
                           ELSE cursors
             /\ self_cursor' = IF ok THEN [self_cursor EXCEPT ![args[c].self] = c]
                               ELSE self_cursor
             /\ Logged(c, "cursor", db, ok, <<>>)
             /\ Finish(c, "cursor", ok)
    /\ UNCHANGED <<fmt, ext, args, locals, self_db, conns, table>>

\* self.__cursor.prepare(_curString)
Prepare(c) ==
    /\ pc[c] = "prepare"
    /\ LET k == self_cursor[args[c].self]
       IN  \E ok \in Outcomes(CursorOpen(k)) :
             /\ cursors' = IF ok THEN [cursors EXCEPT ![k].stmt = locals[c]._curString,
                                                      ![k].prepared = TRUE]
                           ELSE cursors
             /\ Logged(c, "prepare", k, ok, locals[c]._curString)
             /\ Finish(c, "prepare", ok)
    /\ UNCHANGED <<fmt, ext, args, locals, self_db, self_cursor, conns, table>>

\* self.__cursor.executemany(None, _dtList): the rows go to the cursor's
\* connection, uncommitted; when a row is rejected the rows before it stay.
Executemany(c) ==
    /\ pc[c] = "executemany"
    /\ LET k      == self_cursor[args[c].self]
           h      == IF k = NoHandle THEN NoHandle ELSE cursors[k].conn
           batch  == BatchArgument(locals[c])
           usable == /\ CursorOpen(k)
                     /\ cursors[k].prepared
                     /\ HasColumnList(cursors[k].stmt)
                     /\ ConnOpen(h)
       IN  \E ok \in Outcomes(usable), n \in 0..Len(batch) :
             /\ ok => n = Len(batch)
             /\ ~ok => IF usable /\ batch # <<>> THEN n < Len(batch) ELSE n = 0
             /\ conns' = IF n > 0 THEN [conns EXCEPT ![h].pending = @ \o SubSeq(batch, 1, n)]
                         ELSE conns
             /\ Logged(c, "executemany", k, ok, batch)
             /\ Finish(c, "executemany", ok)
    /\ UNCHANGED <<fmt, ext, args, locals, self_db, self_cursor, cursors, table>>

\* self.__db.commit(): when it raises, whether the rows were committed is
\* not known to the caller
Commit(c) ==
    /\ pc[c] = "commit"
    /\ LET db     == self_db[args[c].self]
           usable == ConnOpen(db)
       IN  \E ok \in Outcomes(usable), applied \in BOOLEAN :
             /\ ok => applied
             /\ ~usable => ~applied
             /\ table' = IF applied THEN table \o conns[db].pending ELSE table
             /\ conns' = IF applied THEN [conns EXCEPT ![db].pending = <<>>] ELSE conns
             /\ Logged(c, "commit", db, ok, <<>>)
             /\ Finish(c, "commit", ok)
    /\ UNCHANGED <<fmt, ext, args, locals, self_db, self_cursor, cursors>>

\* self.__cursor.close()
CursorClose(c) ==
    /\ pc[c] = "cursor_close"
    /\ LET k == self_cursor[args[c].self]
       IN  \E ok \in Outcomes(CursorOpen(k)) :
             /\ cursors' = IF ok THEN [cursors EXCEPT ![k].state = "closed"] ELSE cursors
             /\ Logged(c, "cursor_close", k, ok, <<>>)
             /\ Finish(c, "cursor_close", ok)
    /\ UNCHANGED <<fmt, ext, args, locals, self_db, self_cursor, conns, table>>

\* self.__db.close(): uncommitted rows are rolled back by the server
DbClose(c) ==
    /\ pc[c] = "db_close"
    /\ LET db == self_db[args[c].self]
       IN  \E ok \in Outcomes(ConnOpen(db)) :
             /\ conns' = IF ok THEN [conns EXCEPT ![db] = [state |-> "closed", pending |-> <<>>]]
                         ELSE conns
             /\ Logged(c, "db_close", db, ok, <<>>)
             /\ Finish(c, "db_close", ok)
    /\ UNCHANGED <<fmt, ext, args, locals, self_db, self_cursor, cursors, table>>

(***************************************************************************)
(* The statement builders and the row extractor on their own               *)
(***************************************************************************)
FmtInit ==
    fmt \in [pc : {"input"}, colNames : SeqsUpTo(ColumnNamePool, MaxNames),
             ToUpper : BOOLEAN, tableName : TableNamePool,
             _colNameStr : {<<>>}, _colNumStr : {<<>>}, _curString : {<<>>}]

\* _colNameStr, _colNumStr = self.__buildInsertStrObj__(columnNames, colNamesUpper)
FmtBuildInsertStrObj ==
    /\ fmt.pc = "input"
    /\ LET strObj == __buildInsertStrObj__(fmt.colNames, fmt.ToUpper)
       IN  fmt' = [fmt EXCEPT !.pc = "formatted",
                              !._colNameStr = strObj[1], !._colNumStr = strObj[2]]
    /\ UNCHANGED <<extVars, uploadVars>>

\* _curString = self.__buildInsCursorString__(tableName, _colNumStr, _colNameStr)
FmtBuildInsCursorString ==
    /\ fmt.pc = "formatted"
    /\ fmt' = [fmt EXCEPT !.pc = "built",
                          !._curString = __buildInsCursorString__(
                               fmt.tableName, fmt._colNumStr, fmt._colNameStr)]
    /\ UNCHANGED <<extVars, uploadVars>>

ExtInit ==
    ext \in [pc : {"input"}, dataFrame : ExtFrames(MaxDfCols, MaxDfRows), _dtList : {<<>>}]

\* _dtList = self.__pandasToList__(dataFrame)
ExtPandasToList ==
    /\ ext.pc = "input"
    /\ ext' = [ext EXCEPT !.pc = "listed", !._dtList = __pandasToList__(ext.dataFrame)]
    /\ UNCHANGED <<fmtVars, uploadVars>>

\* the loop that applies __castToNone__ to every cell of _dtList
ExtNormalize ==
    /\ ext.pc = "listed"
    /\ ext' = [ext EXCEPT !.pc = "normalized", !._dtList = NormalizeList(ext._dtList)]
    /\ UNCHANGED <<fmtVars, uploadVars>>

(***************************************************************************)
(* Specifications                                                          *)
(***************************************************************************)
\* calls of pandasBulkInsert one after the other
Init == fmt = FmtIdle /\ ext = ExtIdle /\ UploadInit
Next ==
    \E c \in Calls :
        \/ StartInSequence(c)
        \/ Connect(c)
        \/ Cursor(c)
        \/ Prepare(c)
        \/ Executemany(c)
        \/ Commit(c)
        \/ CursorClose(c)
        \/ DbClose(c)
Spec == Init /\ [][Next]_vars

\* calls of pandasBulkInsert from several threads
NextThreads ==
    \E c \in Calls :
        \/ Start(c)
        \/ Connect(c)
        \/ Cursor(c)
        \/ Prepare(c)
        \/ Executemany(c)
        \/ Commit(c)
        \/ CursorClose(c)
        \/ DbClose(c)
SpecThreads == Init /\ [][NextThreads]_vars

\* the statement builders on every bounded input
InitFmt == FmtInit /\ ext = ExtIdle /\ UploadInit
NextFmt == FmtBuildInsertStrObj \/ FmtBuildInsCursorString
SpecFmt == InitFmt /\ [][NextFmt]_vars

\* the row extractor and the normalizer on every bounded frame
InitExt == fmt = FmtIdle /\ ExtInit /\ UploadInit
NextExt == ExtPandasToList \/ ExtNormalize
SpecExt == InitExt /\ [][NextExt]_vars

(***************************************************************************)
(* Reading a generated fragment back                                       *)
(***************************************************************************)
\* Scans a bracketed list: text between double quotes is one quoted item
\* whatever it contains; outside quotes "(" ")" "," are structure and any
\* other run of characters is one unquoted item.
ScanStart ==
    [inq |-> FALSE, cur |-> <<>>, items |-> <<>>, opens |-> 0, closes |-> 0, seps |-> 0]

Flush(st) ==
    IF st.cur = <<>> THEN st
    ELSE [st EXCEPT !.items = Append(@, [quoted |-> FALSE, text |-> st.cur]), !.cur = <<>>]

ScanChar(st, ch) ==
    IF st.inq
    THEN IF ch = "\""
         THEN [st EXCEPT !.inq = FALSE, !.cur = <<>>,
                         !.items = Append(@, [quoted |-> TRUE, text |-> st.cur])]
         ELSE [st EXCEPT !.cur = Append(@, ch)]
    ELSE CASE ch = "\"" -> [Flush(st) EXCEPT !.inq = TRUE]
           [] ch = "("  -> [Flush(st) EXCEPT !.opens = @ + 1]
           [] ch = ")"  -> [Flush(st) EXCEPT !.closes = @ + 1]
           [] ch = ","  -> [Flush(st) EXCEPT !.seps = @ + 1]
           [] OTHER     -> [st EXCEPT !.cur = Append(@, ch)]

RECURSIVE ScanFrom(_, _, _)
ScanFrom(s, k, st) ==
    IF k > Len(s) THEN Flush(st) ELSE ScanFrom(s, k + 1, ScanChar(st, s[k]))

Scan(s) == ScanFrom(s, 1, ScanStart)

DigitValue(ch) == CHOOSE d \in 0..9 : Digit(d) = ch
IsDigit(ch) == \E d \in 0..9 : Digit(d) = ch

\* the number a decimal numeral denotes
RECURSIVE NatOf(_)
NatOf(s) ==
    IF s = <<>> THEN 0
    ELSE 10 * NatOf(SubSeq(s, 1, Len(s) - 1)) + DigitValue(s[Len(s)])

IsPlaceholder(text, i) ==
    /\ Len(text) >= 2
    /\ text[1] = ":"
    /\ \A k \in 2..Len(text) : IsDigit(text[k])
    /\ text[2] # "0"
    /\ NatOf(Tail(text)) = i

RECURSIVE Join(_, _)
Join(items, sep) ==
    IF items = <<>> THEN <<>>
    ELSE IF Len(items) = 1 THEN items[1]
    ELSE items[1] \o sep \o Join(Tail(items), sep)

Quoted(name) == <<"\"">> \o name \o <<"\"">>

\* ("<col1>","<col2>",...) and (:1,:2,...) for the names as given
ColumnListText(names) ==
    <<"(">> \o Join([k \in 1..Len(names) |-> Quoted(names[k])], <<",">>) \o <<")">>
PlaceholderListText(n) ==
    <<"(">> \o Join([k \in 1..n |-> <<":">> \o Str(k)], <<",">>) \o <<")">>

NamesAsRequested(names, ToUpper) ==
    [k \in 1..Len(names) |-> IF ToUpper THEN Upper(names[k]) ELSE names[k]]

HasNoQuote(name) == \A k \in 1..Len(name) : name[k] # "\""

CountChar(s, ch) == Cardinality({k \in 1..Len(s) : s[k] = ch})

C8_StatementTextTableVerbatim ==
    (fmt.pc = "built" /\ Len(fmt.colNames) >= 1) =>
        fmt._curString =
            InsertInto \o fmt.tableName \o <<" ">>
              \o ColumnListText(NamesAsRequested(fmt.colNames, fmt.ToUpper))
              \o Values \o PlaceholderListText(Len(fmt.colNames))

\* INSERT INTO T ("id","name") VALUES (:1,:2)
ExampleStatementText ==
    InsertInto \o <<"T", " ", "(", "\"", "i", "d", "\"", ",", "\"", "n", "a", "m", "e", "\"", ")">>
      \o Values \o <<"(", ":", "1", ",", ":", "2", ")">>

C8_Witness ==
    /\ fmt.pc = "built"
    /\ fmt.tableName = TableT
    /\ fmt.colNames = <<NameId, NameName>>
    /\ ~fmt.ToUpper
    /\ fmt._curString = ExampleStatementText

\* C8 as stated: the table name is double-quoted as well, so that table T
\* and columns [id, name] give INSERT INTO "T" ("id","name") VALUES (:1,:2).
C8_StatementTextTableQuoted ==
    (fmt.pc = "built" /\ Len(fmt.colNames) >= 1) =>
        fmt._curString =
            InsertInto \o Quoted(fmt.tableName) \o <<" ">>
              \o ColumnListText(NamesAsRequested(fmt.colNames, fmt.ToUpper))
              \o Values \o PlaceholderListText(Len(fmt.colNames))

(***************************************************************************)
(* C7: the batch handed to executemany is the frame row by row with the    *)
(* normalizer applied to every cell: as many rows, in order, as many       *)
(* values per row, in column order; a cell that does not equal itself is   *)
(* replaced by None, a cell that equals itself (0, "", False, None         *)
(* included) arrives unchanged, here: as a value equal to it; no NaN       *)
(* reaches the driver.                                                     *)
(***************************************************************************)
C7_BatchIsNormalizedFrame ==
    ext.pc = "normalized" =>
        LET rows  == ext.dataFrame.rows
            batch == ext._dtList
        IN  /\ Len(batch) = Len(rows)
            /\ \A i \in 1..Len(rows) :
                 /\ Len(batch[i]) = Len(ext.dataFrame.dtypes)
                 /\ \A j \in 1..Len(rows[i]) :
                      /\ batch[i][j].t # "nan"
                      /\ PyNe(rows[i][j], rows[i][j]) => batch[i][j] = None
                      /\ PyEq(rows[i][j], rows[i][j]) => PyEq(batch[i][j], rows[i][j])

(***************************************************************************)
(* The driver calls of one pandasBulkInsert call                           *)
(***************************************************************************)
OpsOf(c) == [k \in 1..Len(log[c]) |-> log[c][k].op]
CountOp(c, op) == Cardinality({k \in 1..Len(log[c]) : log[c][k].op = op})
Succeeded(c, op) == \E k \in 1..Len(log[c]) : log[c][k].op = op /\ log[c][k].ok
Started(c) == pc[c] # "idle"

\* connect, cursor (open); prepare; executemany; commit; cursor.close,
\* connection.close (close)
FullCycle ==
    <<"connect", "cursor", "prepare", "executemany", "commit", "cursor_close", "db_close">>

(***************************************************************************)
(* C1: in every call that opened the session, close is invoked exactly     *)
(* once before the call returns or raises, whichever step fails or if      *)
(* none does.                                                              *)
(***************************************************************************)
C1_CloseExactlyOnce ==
    \A c \in Calls :
        (pc[c] = "done" /\ Succeeded(c, "connect")) => CountOp(c, "db_close") = 1

ColumnCountMismatch(a) ==
    a.columnNames.given /\ Len(a.columnNames.names) # Len(a.dataFrame.columns)

(***************************************************************************)
(* C2: a call with an explicit columnNames list whose length differs from  *)
(* the frame's column count fails with the validation error (the failed    *)
(* assert, AssertionError) and issues no driver call: no connect, prepare, *)
(* executemany or commit.                                                  *)
(***************************************************************************)
C2_MismatchFailsBeforeConnect ==
    \A c \in Calls :
        (Started(c) /\ ColumnCountMismatch(args[c])) =>
            /\ pc[c] = "done"
            /\ result[c] = AssertionError
            /\ log[c] = <<>>

C2_Witness ==
    \E c \in Calls :
        /\ pc[c] = "done"
        /\ args[c].dataFrame = FrameExample
        /\ args[c].columnNames = ColumnNames(<<NameId>>)
        /\ result[c] = AssertionError

IsEmptyFrame(df) == df.rows = <<>> \/ df.columns = <<>>

(***************************************************************************)
(* C3: a call with an empty frame (no rows, or no columns) fails with the  *)
(* validation error before any connection is opened: no driver call.      *)
(***************************************************************************)
C3_EmptyFrameFailsBeforeConnect ==
    \A c \in Calls :
        (Started(c) /\ IsEmptyFrame(args[c].dataFrame)) =>
            /\ log[c] = <<>>
            /\ pc[c] = "done" => result[c] = AssertionError

TypedErrorOf(op) ==
    CASE op \in {"connect", "cursor"} -> "ConnectionError"
      [] op = "prepare"               -> "StatementError"
      [] op = "executemany"           -> "ExecutionError"
      [] op = "commit"                -> "CommitError"

(***************************************************************************)
(* C4: a failure is surfaced as the typed error of the stage that failed:  *)
(* open -> ConnectionError, prepare -> StatementError, executemany ->      *)
(* ExecutionError, commit -> CommitError; never the driver's own error.    *)
(***************************************************************************)
C4_FailuresAreTyped ==
    \A c \in Calls :
        (/\ pc[c] = "done"
         /\ log[c] # <<>>
         /\ ~log[c][Len(log[c])].ok
         /\ log[c][Len(log[c])].op \in {"connect", "cursor", "prepare", "executemany", "commit"}) =>
            result[c].exc = TypedErrorOf(log[c][Len(log[c])].op)

(***************************************************************************)
(* C5: the driver calls of one call are a prefix of open, prepare,         *)
(* executemany, commit, close, each at most once; each is issued only      *)
(* after the one before it succeeded; executemany is one call that gets    *)
(* every row of the frame; there is no commit unless executemany           *)
(* succeeded, and no rollback.                                             *)
(***************************************************************************)
C5_DriverCallsInOrder ==
    \A c \in Calls :
        /\ Len(log[c]) <= Len(FullCycle)
        /\ \A k \in 1..Len(log[c]) :
             /\ log[c][k].op = FullCycle[k]
             /\ k < Len(log[c]) => log[c][k].ok
             /\ log[c][k].op = "executemany" =>
                  /\ Len(log[c][k].arg) = Len(args[c].dataFrame.rows)
                  /\ log[c][k].arg = NormalizeList(__pandasToList__(args[c].dataFrame))
        /\ pc[c] = "done" /\ result[c] = Returned => OpsOf(c) = FullCycle

C5_Witness ==
    \E c \in Calls :
        /\ pc[c] = "done"
        /\ result[c] = Returned
        /\ args[c].dataFrame = FrameExample
        /\ OpsOf(c) = FullCycle
        /\ \A k \in 1..Len(log[c]) : log[c][k].ok

(***************************************************************************)
(* C6: every handle a call prepares on, executes on, commits or closes is  *)
(* one that same call opened, for any interleaving of calls, also of calls *)
(* on the same command object.                                             *)
(***************************************************************************)
C6_CallsUseOwnHandles ==
    \A c \in Calls : \A k \in 1..Len(log[c]) : log[c][k].on \in {c, NoHandle}

SameInputs(a, b) ==
    /\ a.dataFrame = b.dataFrame
    /\ a.tableName = b.tableName
    /\ a.columnNames = b.columnNames
    /\ a.colNamesUpper = b.colNamesUpper

CountRow(rows, r) == Cardinality({k \in 1..Len(rows) : rows[k] = r})

RanFullCycle(c) ==
    /\ OpsOf(c) = FullCycle
    /\ \A k \in 1..Len(log[c]) : log[c][k].ok /\ log[c][k].on = c
    /\ log[c][4].arg = NormalizeList(__pandasToList__(args[c].dataFrame))

(***************************************************************************)
(* C10: two calls in sequence with the same frame, table and columns, both *)
(* returning, are two full cycles: each opens its own connection, prepares *)
(* the statement, hands the whole batch to executemany, commits and        *)
(* closes; the table then holds every row of the batch twice.              *)
(***************************************************************************)
C10_SecondUploadInsertsAgain ==
    \A c1 \in Calls : \A c2 \in Calls :
        (/\ c1 < c2
         /\ pc[c1] = "done" /\ result[c1] = Returned
         /\ pc[c2] = "done" /\ result[c2] = Returned
         /\ SameInputs(args[c1], args[c2])) =>
            /\ RanFullCycle(c1)
            /\ RanFullCycle(c2)
            /\ log[c1][3].arg = log[c2][3].arg
            /\ \A i \in 1..Len(log[c1][4].arg) :
                 CountRow(table, log[c1][4].arg[i]) >= 2 * CountRow(log[c1][4].arg, log[c1][4].arg[i])

C10_Witness ==
    /\ pc[1] = "done" /\ result[1] = Returned
    /\ pc[2] = "done" /\ result[2] = Returned
    /\ args[1].dataFrame = FrameExample
    /\ SameInputs(args[1], args[2])
    /\ args[1].self = args[2].self
    /\ Len(table) = 4
    /\ SubSeq(table, 1, 2) = SubSeq(table, 3, 4)

====
